---------------------------- MODULE Spec2Model ----------------------------
(***************************************************************************)
(* Expression trees (parser::AbstractExpression, OperatorExpression), the  *)
(* tree algorithms of parser::ExpressionUtil and the optimizer's           *)
(* PropertyEnforcer.                                                       *)
(*                                                                         *)
(* Expression objects live in a heap: heap[i] is the object with address   *)
(* i, and a child is held by address (0 is nullptr), so that "the same     *)
(* object" and "an equal object" are different things, as in the code.     *)
(***************************************************************************)
EXTENDS Integers, Sequences, FiniteSets, TLC

VARIABLES
  heap,     \* the expression objects allocated so far, by address
  last,     \* the last completed call: its name, arguments and result
  cp,       \* SpecNode: the pair (original, copy) made by Copy()
  touched,  \* SpecNode: the trees of cp changed since the copy
  nmut,     \* SpecNode: number of changes applied so far
  enf,      \* PropertyEnforcer: input_gexpr_, output_gexpr_
  gexprs,   \* the GroupExpression objects allocated so far, by address
  pc,       \* per caller: position inside EnforceProperty
  frame,    \* per caller: EnforceProperty's argument and return value
  ncalls,   \* number of EnforceProperty calls started
  overlap   \* history: some call started while another call was running

vars == <<heap, last, cp, touched, nmut, enf, gexprs, pc, frame, ncalls, overlap>>

nodeVars == <<cp, touched, nmut>>
enfVars == <<enf, gexprs, pc, frame, ncalls, overlap>>

(***************************************************************************)
(* Bounds of the model.                                                    *)
(***************************************************************************)
MaxNodes == 3      \* nodes of an input tree
MaxMut == 1        \* changes applied to the trees of SpecNode
MaxLen == 2        \* length of an expression vector handed to ExpressionUtil
MaxKeys == 2       \* entries of one ExprMap
MaxOperand == 1    \* operands of a comparison are -MaxOperand..MaxOperand
MaxGroup == 2      \* GroupIDs of the memo are 0..MaxGroup
MaxCalls == 3      \* EnforceProperty calls of one run

(***************************************************************************)
(* type::TypeId, in its declared order (DeriveReturnValueType relies on    *)
(* it).                                                                    *)
(***************************************************************************)
TypeId_INVALID == 0
TypeId_BOOLEAN == 1
TypeId_TINYINT == 2
TypeId_SMALLINT == 3
TypeId_INTEGER == 4
TypeId_BIGINT == 5
TypeId_DECIMAL == 6
TypeId_TIMESTAMP == 7
TypeId_DATE == 8
TypeId_VARCHAR == 9
TypeId_VARBINARY == 10

NULLPTR == 0

Max(a, b) == IF a >= b THEN a ELSE b

Range(s) == {s[i] : i \in 1..Len(s)}

(***************************************************************************)
(* An expression object.  table/column are ColumnValueExpression's own     *)
(* fields, tuple_idx/value_idx DerivedValueExpression's.                   *)
(***************************************************************************)
AbstractExpression(expression_type, return_value_type, alias, children) ==
  [type |-> expression_type, name |-> "", alias |-> alias,
   rtype |-> return_value_type, depth |-> -1, subq |-> FALSE,
   children |-> children,
   table |-> "", column |-> "", tuple_idx |-> 0, value_idx |-> 0]

OperatorExpression(expression_type, return_value_type, children) ==
  AbstractExpression(expression_type, return_value_type, "", children)

ColumnValueExpression(table, column, return_value_type, alias) ==
  [AbstractExpression("COLUMN_VALUE", return_value_type, alias, <<>>)
     EXCEPT !.table = table, !.column = column]

DerivedValueExpression(return_value_type, tuple_idx, value_idx) ==
  [AbstractExpression("VALUE_TUPLE", return_value_type, "", <<>>)
     EXCEPT !.tuple_idx = tuple_idx, !.value_idx = value_idx]

ConstantValueExpression(return_value_type) ==
  AbstractExpression("VALUE_CONSTANT", return_value_type, "", <<>>)

SubqueryExpression(return_value_type) ==
  AbstractExpression("ROW_SUBQUERY", return_value_type, "", <<>>)

ConjunctionExpression(expression_type, children) ==
  AbstractExpression(expression_type, TypeId_BOOLEAN, "", children)

AggregateExpression(expression_type, return_value_type, children) ==
  AbstractExpression(expression_type, return_value_type, "", children)

\* The absent tree (what a nullptr stands for), as a value.
NullTree == AbstractExpression("NULLPTR", TypeId_INVALID, "", <<>>)

(***************************************************************************)
(* The tree an address stands for, as a value: the object with its         *)
(* children replaced by their trees.                                       *)
(***************************************************************************)
RECURSIVE TreeOf(_, _)
TreeOf(h, e) ==
  IF e = NULLPTR THEN NullTree
  ELSE [h[e] EXCEPT !.children =
          [i \in 1..Len(h[e].children) |-> TreeOf(h, h[e].children[i])]]

\* The addresses of the objects of the tree rooted at e.
RECURSIVE Reach(_, _)
Reach(h, e) ==
  IF e = NULLPTR THEN {}
  ELSE {e} \cup UNION {Reach(h, h[e].children[i]) : i \in 1..Len(h[e].children)}

\* Allocation of the objects of a tree value, children first, left to right.
RECURSIVE Alloc(_, _)
RECURSIVE AllocAll(_, _, _, _)
AllocAll(h, trees, i, ids) ==
  IF i > Len(trees) THEN [h |-> h, ids |-> ids]
  ELSE LET r == Alloc(h, trees[i])
       IN AllocAll(r.h, trees, i + 1, Append(ids, r.id))

Alloc(h, t) ==
  IF t.type = "NULLPTR" THEN [h |-> h, id |-> NULLPTR]
  ELSE LET kids == AllocAll(h, t.children, 1, <<>>)
       IN [h |-> Append(kids.h, [t EXCEPT !.children = kids.ids]),
           id |-> Len(kids.h) + 1]

(***************************************************************************)
(* common::HashUtil.  A hash value is the term built from the hashed       *)
(* values (each written out as text): every deterministic Hash and         *)
(* CombineHashes is an image of it, so two equal terms are equal hashes    *)
(* under any implementation.                                               *)
(***************************************************************************)
HashUtilHash(x) == <<ToString(x)>>

CombineHashes(first, second) == <<first, second>>

(***************************************************************************)
(* AbstractExpression::Hash and operator==, and what the leaf classes'     *)
(* overrides add for their own fields.                                     *)
(***************************************************************************)
RECURSIVE Hash(_, _)
RECURSIVE HashChildren(_, _, _, _)
HashChildren(h, children, i, hash) ==
  IF i > Len(children) THEN hash
  ELSE HashChildren(h, children, i + 1, CombineHashes(hash, Hash(h, children[i])))

AbstractHash(h, e) ==
  LET h0 == HashUtilHash(h[e].type)
      h1 == HashChildren(h, h[e].children, 1, h0)
      h2 == CombineHashes(h1, HashUtilHash(h[e].rtype))
      h3 == CombineHashes(h2, HashUtilHash(h[e].name))
      h4 == CombineHashes(h3, HashUtilHash(h[e].alias))
      h5 == CombineHashes(h4, HashUtilHash(h[e].depth))
      h6 == CombineHashes(h5, HashUtilHash(IF h[e].subq THEN 1 ELSE 0))
  IN h6

LeafHash(n, hash) ==
  CASE n.type = "COLUMN_VALUE" ->
         CombineHashes(CombineHashes(hash, HashUtilHash(n.table)), HashUtilHash(n.column))
    [] n.type = "VALUE_TUPLE" ->
         CombineHashes(CombineHashes(hash, HashUtilHash(n.tuple_idx)), HashUtilHash(n.value_idx))
    [] OTHER -> hash

Hash(h, e) == LeafHash(h[e], AbstractHash(h, e))

RECURSIVE Equals(_, _, _)

AbstractEqualsNoDepth(h, a, b) ==
  /\ h[a].type = h[b].type
  /\ h[a].alias = h[b].alias
  /\ h[a].name = h[b].name
  /\ h[a].subq = h[b].subq
  /\ Len(h[a].children) = Len(h[b].children)
  /\ \A i \in 1..Len(h[a].children) : Equals(h, h[a].children[i], h[b].children[i])
  /\ h[a].rtype = h[b].rtype

AbstractEquals(h, a, b) ==
  /\ h[a].type = h[b].type
  /\ h[a].alias = h[b].alias
  /\ h[a].name = h[b].name
  /\ h[a].depth = h[b].depth
  /\ h[a].subq = h[b].subq
  /\ Len(h[a].children) = Len(h[b].children)
  /\ \A i \in 1..Len(h[a].children) : Equals(h, h[a].children[i], h[b].children[i])
  /\ h[a].rtype = h[b].rtype

LeafEquals(m, n) ==
  CASE m.type = "COLUMN_VALUE" -> m.table = n.table /\ m.column = n.column
    [] m.type = "VALUE_TUPLE" -> m.tuple_idx = n.tuple_idx /\ m.value_idx = n.value_idx
    [] OTHER -> TRUE

Equals(h, a, b) == AbstractEquals(h, a, b) /\ LeafEquals(h[a], h[b])

(***************************************************************************)
(* AbstractExpression::SetMutableStateForCopy and OperatorExpression::Copy *)
(***************************************************************************)
SetMutableStateForCopy(expr, copy_expr) ==
  [expr EXCEPT !.name = copy_expr.name, !.rtype = copy_expr.rtype,
               !.depth = copy_expr.depth, !.subq = copy_expr.subq,
               !.alias = copy_expr.alias]

\* What a leaf class's Copy() keeps of its own fields.
CopyLeafFields(expr, copy_expr) ==
  [expr EXCEPT !.table = copy_expr.table, !.column = copy_expr.column,
               !.tuple_idx = copy_expr.tuple_idx, !.value_idx = copy_expr.value_idx]

RECURSIVE Copy(_, _)
RECURSIVE CopyChildren(_, _, _, _)
CopyChildren(h, children, i, ids) ==
  IF i > Len(children) THEN [h |-> h, ids |-> ids]
  ELSE LET r == Copy(h, children[i])
       IN CopyChildren(r.h, children, i + 1, Append(ids, r.id))

\* A copy that keeps the original's children instead of copying them.
CopyShallow(h, e) ==
  LET expr == OperatorExpression(h[e].type, h[e].rtype, h[e].children)
  IN [h |-> Append(h, CopyLeafFields(SetMutableStateForCopy(expr, h[e]), h[e])),
      id |-> Len(h) + 1]

Copy(h, e) ==
  LET kids == CopyChildren(h, h[e].children, 1, <<>>)
      expr == OperatorExpression(h[e].type, h[e].rtype, kids.ids)
  IN [h |-> Append(kids.h, CopyLeafFields(SetMutableStateForCopy(expr, h[e]), h[e])),
      id |-> Len(kids.h) + 1]

(***************************************************************************)
(* Input trees: every tree of n nodes over the given leaves and the given  *)
(* kinds of inner node, each kind with the child counts it is built with.  *)
(***************************************************************************)
RECURSIVE TreesOfSize(_, _, _)
RECURSIVE ChildSeqs(_, _, _, _)
\* The sequences of m trees of k nodes in all.
ChildSeqs(leaves, kinds, k, m) ==
  IF m = 0 THEN (IF k = 0 THEN {<<>>} ELSE {})
  ELSE UNION {{<<t>> \o s : t \in TreesOfSize(leaves, kinds, j),
                            s \in ChildSeqs(leaves, kinds, k - j, m - 1)} : j \in 1..k}

TreesOfSize(leaves, kinds, n) ==
  (IF n = 1 THEN leaves ELSE {}) \cup
  UNION {{AbstractExpression(k.type, k.rtype, "", kids) :
            kids \in UNION {ChildSeqs(leaves, kinds, n - 1, m) : m \in k.arity}} :
         k \in kinds}

TreesUpTo(leaves, kinds, n) == UNION {TreesOfSize(leaves, kinds, j) : j \in 1..n}

(***************************************************************************)
(* OperatorExpression::DeriveReturnValueType.  std::max_element keeps the  *)
(* first largest element; on an empty range it returns end(), and reading  *)
(* through end() is undefined: ub is the value that read yields.           *)
(***************************************************************************)
RECURSIVE MaxElement(_, _, _, _)
MaxElement(h, children, i, largest) ==
  IF i > Len(children) THEN largest
  ELSE MaxElement(h, children, i + 1,
                  IF h[children[largest]].rtype < h[children[i]].rtype THEN i ELSE largest)

RECURSIVE MinElement(_, _, _, _)
MinElement(h, children, i, smallest) ==
  IF i > Len(children) THEN smallest
  ELSE MinElement(h, children, i + 1,
                  IF h[children[i]].rtype < h[children[smallest]].rtype THEN i ELSE smallest)

IsUnaryLogical(expression_type) ==
  expression_type \in {"OPERATOR_NOT", "OPERATOR_IS_NULL", "OPERATOR_IS_NOT_NULL",
                       "OPERATOR_EXISTS"}

DeriveReturnValueTypeMin(h, e, ub) ==
  IF IsUnaryLogical(h[e].type)
  THEN [h |-> [h EXCEPT ![e].rtype = TypeId_BOOLEAN], ok |-> TRUE]
  ELSE LET children == h[e].children
           type == IF children = <<>> THEN ub
                   ELSE h[children[MinElement(h, children, 2, 1)]].rtype
       IN IF type <= TypeId_DECIMAL
          THEN [h |-> [h EXCEPT ![e].rtype = type], ok |-> TRUE]
          ELSE [h |-> h, ok |-> FALSE]

DeriveReturnValueType(h, e, ub) ==
  IF IsUnaryLogical(h[e].type)
  THEN [h |-> [h EXCEPT ![e].rtype = TypeId_BOOLEAN], ok |-> TRUE]
  ELSE LET children == h[e].children
           type == IF children = <<>> THEN ub
                   ELSE h[children[MaxElement(h, children, 2, 1)]].rtype
       IN IF type <= TypeId_DECIMAL
          THEN [h |-> [h EXCEPT ![e].rtype = type], ok |-> TRUE]
          ELSE [h |-> h, ok |-> FALSE]

(***************************************************************************)
(* AbstractExpression::DeriveSubqueryFlag: the flag of e and of every      *)
(* node below it becomes "holds a sub-query".                              *)
(***************************************************************************)
RECURSIVE ContainsSubquery(_, _)
ContainsSubquery(h, e) ==
  \/ h[e].type \in {"ROW_SUBQUERY", "SELECT_SUBQUERY"}
  \/ \E i \in 1..Len(h[e].children) : ContainsSubquery(h, h[e].children[i])

DeriveSubqueryFlag(h, e) ==
  [n \in 1..Len(h) |->
     IF n \in Reach(h, e) THEN [h[n] EXCEPT !.subq = ContainsSubquery(h, n)] ELSE h[n]]

(***************************************************************************)
(* AbstractExpression::SetChild: the child list grows to hold the index,   *)
(* and the slot receives a copy of expr.                                   *)
(***************************************************************************)
Resize(children, n) ==
  [i \in 1..n |-> IF i <= Len(children) THEN children[i] ELSE NULLPTR]

\* The receiver's subquery flag is derived anew after the replacement.
SetChildDeriving(h, e, index, expr) ==
  LET children == IF index >= Len(h[e].children)
                  THEN Resize(h[e].children, index + 1)
                  ELSE h[e].children
      new_child == Copy(h, expr)
  IN DeriveSubqueryFlag(
       [new_child.h EXCEPT ![e].children = [children EXCEPT ![index + 1] = new_child.id]],
       e)

SetChild(h, e, index, expr) ==
  LET children == IF index >= Len(h[e].children)
                  THEN Resize(h[e].children, index + 1)
                  ELSE h[e].children
      new_child == Copy(h, expr)
  IN [new_child.h EXCEPT ![e].children = [children EXCEPT ![index + 1] = new_child.id]]

(***************************************************************************)
(* The initial state: nothing allocated, no call made.                     *)
(***************************************************************************)
Threads == {1, 2}

NoCopy == [src |-> NULLPTR, dst |-> NULLPTR, srcSnap |-> NullTree, dstSnap |-> NullTree]

Init ==
  /\ heap = <<>>
  /\ last = [op |-> "none", ok |-> TRUE]
  /\ cp = NoCopy
  /\ touched = {}
  /\ nmut = 0
  /\ enf = [input_gexpr_ |-> NULLPTR, output_gexpr_ |-> NULLPTR]
  /\ gexprs = <<>>
  /\ pc = [t \in Threads |-> "idle"]
  /\ frame = [t \in Threads |-> [gexpr |-> NULLPTR, ret |-> NULLPTR]]
  /\ ncalls = 0
  /\ overlap = FALSE

(***************************************************************************)
(* SpecNode: one expression tree is built, copied with Copy(), and the     *)
(* tree and its copy are changed through their own nodes.                  *)
(***************************************************************************)
NodeLeaves ==
  {ColumnValueExpression("t1", "a", TypeId_INTEGER, ""),
   ColumnValueExpression("t2", "b", TypeId_DECIMAL, "x"),
   SubqueryExpression(TypeId_VARCHAR)}

NodeKinds ==
  {[type |-> "OPERATOR_PLUS", rtype |-> TypeId_INVALID, arity |-> {2}],
   [type |-> "OPERATOR_NOT", rtype |-> TypeId_INVALID, arity |-> {1}]}

NodeExprs == TreesUpTo(NodeLeaves, NodeKinds, MaxNodes)

DepthValues == {0}
NameValues == {"e"}
UbTypes == {TypeId_INVALID, TypeId_VARBINARY}

Construct ==
  /\ heap = <<>>
  /\ \E t \in NodeExprs :
       LET r == Alloc(heap, t)
       IN /\ heap' = r.h
          /\ cp' = [cp EXCEPT !.src = r.id]
          /\ last' = [op |-> "Construct", ok |-> TRUE]
  /\ UNCHANGED <<touched, nmut, enfVars>>

DoCopy ==
  /\ last.ok
  /\ cp.src # NULLPTR
  /\ cp.dst = NULLPTR
  /\ LET r == Copy(heap, cp.src)
     IN /\ heap' = r.h
        /\ cp' = [src |-> cp.src, dst |-> r.id,
                  srcSnap |-> TreeOf(r.h, cp.src), dstSnap |-> TreeOf(r.h, r.id)]
        /\ last' = [op |-> "Copy", ok |-> TRUE]
  /\ touched' = {}
  /\ UNCHANGED <<nmut, enfVars>>

\* A change applied to the tree rooted at r.
Change(r, h2, call) ==
  /\ nmut < MaxMut
  /\ heap' = h2
  /\ last' = call
  /\ touched' = IF cp.dst # NULLPTR THEN touched \cup {r} ELSE touched
  /\ nmut' = nmut + 1
  /\ UNCHANGED <<cp, enfVars>>

Roots == {cp.src, cp.dst} \ {NULLPTR}

DoSetDepth ==
  /\ last.ok
  /\ \E r \in Roots : \E n \in Reach(heap, r) : \E d \in DepthValues :
       Change(r, [heap EXCEPT ![n].depth = d], [op |-> "SetDepth", ok |-> TRUE])

DoSetExpressionName ==
  /\ last.ok
  /\ \E r \in Roots : \E n \in Reach(heap, r) : \E s \in NameValues :
       Change(r, [heap EXCEPT ![n].name = s],
              [op |-> "SetExpressionName", ok |-> TRUE])

DoDeriveReturnValueType ==
  /\ last.ok
  /\ \E r \in Roots : \E n \in Reach(heap, r) :
       /\ heap[n].type \in {k.type : k \in NodeKinds}
       /\ \E ub \in (IF heap[n].children = <<>> /\ ~IsUnaryLogical(heap[n].type)
                      THEN UbTypes ELSE {TypeId_INVALID}) :
            LET res == DeriveReturnValueType(heap, n, ub)
            IN Change(r, res.h, [op |-> "DeriveReturnValueType", e |-> n, ok |-> res.ok])

DoDeriveSubqueryFlag ==
  /\ last.ok
  /\ \E r \in Roots : \E n \in Reach(heap, r) :
       Change(r, DeriveSubqueryFlag(heap, n),
              [op |-> "DeriveSubqueryFlag", ok |-> TRUE])

DoSetChild ==
  /\ last.ok
  /\ \E r \in Roots : \E n \in Reach(heap, r) :
       /\ heap[n].type \in {k.type : k \in NodeKinds}
       /\ \E index \in 0..Len(heap[n].children) : \E expr \in Roots :
            /\ Change(r, SetChild(heap, n, index, expr),
                      [op |-> "SetChild", ok |-> TRUE])

NextNode ==
  \/ Construct
  \/ DoCopy
  \/ DoSetDepth
  \/ DoSetExpressionName
  \/ DoDeriveReturnValueType
  \/ DoDeriveSubqueryFlag
  \/ DoSetChild

SpecNode == Init /\ [][NextNode]_vars

(***************************************************************************)
(* C1: whenever two expression objects compare equal with operator==,      *)
(* their Hash() values are equal.                                          *)
(***************************************************************************)
C1_EqualImpliesSameHash ==
  \A a \in 1..Len(heap) : \A b \in a..Len(heap) :
    Equals(heap, a, b) => Hash(heap, a) = Hash(heap, b)

\* Two different objects with children compare equal, and two others of the
\* same kind do not.
C1_Witness ==
  \E a \in 1..Len(heap) : \E b \in 1..Len(heap) : \E c \in 1..Len(heap) :
    /\ a # b
    /\ heap[a].children # <<>>
    /\ Equals(heap, a, b)
    /\ heap[c].type = heap[a].type
    /\ ~Equals(heap, a, c)

(***************************************************************************)
(* C2: the tree returned by Copy() compares equal to the original and      *)
(* shares no node with it: changes applied to one of the two trees leave   *)
(* the other as it was when the copy was made.                             *)
(***************************************************************************)
C2_CopyEqualAndIndependent ==
  cp.dst # NULLPTR =>
    /\ Reach(heap, cp.src) \cap Reach(heap, cp.dst) = {}
    /\ cp.srcSnap = cp.dstSnap
    /\ touched = {} => Equals(heap, cp.src, cp.dst)
    /\ cp.src \notin touched => TreeOf(heap, cp.src) = cp.srcSnap
    /\ cp.dst \notin touched => TreeOf(heap, cp.dst) = cp.dstSnap

\* A tree with children was copied and a node below the copy's root changed.
C2_Witness ==
  /\ cp.dst # NULLPTR
  /\ touched = {cp.dst}
  /\ heap[cp.src].children # <<>>
  /\ Len(cp.dstSnap.children) = Len(heap[cp.dst].children)
  /\ \E i \in 1..Len(cp.dstSnap.children) :
       TreeOf(heap, heap[cp.dst].children[i]) # cp.dstSnap.children[i]
  /\ TreeOf(heap, cp.src) = cp.srcSnap

(***************************************************************************)
(* C18: SetChild(index, expr) on a node with n children: afterwards the    *)
(* child at index is a copy of expr made of new objects, the node has      *)
(* max(n, index+1) children, every other child is the object it was, with  *)
(* the tree it had, and the name, return type, depth and subquery flag of  *)
(* the node, like every other object, are as before: nothing is derived    *)
(* anew.                                                                   *)
(***************************************************************************)
C18_SetChildFrame ==
  [][(last'.op = "SetChild" /\ nmut' = nmut + 1) =>
       \A e \in 1..Len(heap) : \A index \in 0..Len(heap[e].children) :
         \A expr \in Roots :
           heap' = SetChild(heap, e, index, expr) =>
             LET n == Len(heap[e].children)
                 new_child == heap'[e].children[index + 1]
             IN /\ Len(heap'[e].children) = Max(n, index + 1)
                /\ new_child \notin 0..Len(heap)
                /\ Reach(heap', new_child) \cap (1..Len(heap)) = {}
                /\ TreeOf(heap', new_child) = TreeOf(heap, expr)
                /\ \A i \in 1..n :
                     i # index + 1 =>
                       /\ heap'[e].children[i] = heap[e].children[i]
                       /\ TreeOf(heap', heap'[e].children[i]) =
                            TreeOf(heap, heap[e].children[i])
                /\ heap'[e] = [heap[e] EXCEPT !.children = heap'[e].children]
                /\ \A m \in 1..Len(heap) : m # e => heap'[m] = heap[m]]_vars

\* A tree with a subquery was appended to the children of the original's
\* root, whose subquery flag is still unset.
C18_Witness ==
  /\ last.op = "SetChild"
  /\ cp.dst # NULLPTR
  /\ touched = {cp.src}
  /\ Len(heap[cp.src].children) = Len(cp.srcSnap.children) + 1
  /\ ~heap[cp.src].subq
  /\ \E m \in Reach(heap, heap[cp.src].children[Len(heap[cp.src].children)]) :
       heap[m].type = "ROW_SUBQUERY"

(***************************************************************************)
(* C7: DeriveReturnValueType sets BOOLEAN for NOT, IS NULL, IS NOT NULL    *)
(* and EXISTS whatever the children's types, and otherwise the largest     *)
(* return type among the children, when that is at most DECIMAL.           *)
(***************************************************************************)
ChildTypes(n) == {heap[heap[n].children[i]].rtype : i \in 1..Len(heap[n].children)}

C7_DerivedReturnType ==
  last.op = "DeriveReturnValueType" =>
    LET n == last.e
    IN IF IsUnaryLogical(heap[n].type)
       THEN last.ok /\ heap[n].rtype = TypeId_BOOLEAN
       ELSE heap[n].children # <<>> =>
              LET m == CHOOSE t \in ChildTypes(n) : \A u \in ChildTypes(n) : u <= t
              IN /\ last.ok <=> m <= TypeId_DECIMAL
                 /\ last.ok => heap[n].rtype = m

\* INTEGER + DECIMAL has been derived to DECIMAL.
C7_Witness ==
  /\ last.op = "DeriveReturnValueType"
  /\ last.ok
  /\ heap[last.e].type = "OPERATOR_PLUS"
  /\ ChildTypes(last.e) = {TypeId_INTEGER, TypeId_DECIMAL}
  /\ heap[last.e].rtype = TypeId_DECIMAL

(***************************************************************************)
(* ExpressionUtil::ReverseComparisonExpressionType, and what a comparison  *)
(* kind means on two integers.                                             *)
(***************************************************************************)
ReverseComparisonExpressionType(type) ==
  CASE type = "COMPARE_GREATER_THAN" -> "COMPARE_LESS_THAN_OR_EQUAL_TO"
    [] type = "COMPARE_GREATER_THAN_OR_EQUAL_TO" -> "COMPARE_LESS_THAN"
    [] type = "COMPARE_LESS_THAN" -> "COMPARE_GREATER_THAN_OR_EQUAL_TO"
    [] type = "COMPARE_LESS_THAN_OR_EQUAL_TO" -> "COMPARE_GREATER_THAN"
    [] OTHER -> type

Compare(type, a, b) ==
  CASE type = "COMPARE_EQUAL" -> a = b
    [] type = "COMPARE_NOT_EQUAL" -> a # b
    [] type = "COMPARE_LESS_THAN" -> a < b
    [] type = "COMPARE_GREATER_THAN" -> a > b
    [] type = "COMPARE_LESS_THAN_OR_EQUAL_TO" -> a <= b
    [] type = "COMPARE_GREATER_THAN_OR_EQUAL_TO" -> a >= b

(***************************************************************************)
(* ExpressionUtil::GenerateTableAliasSet                                   *)
(***************************************************************************)
RECURSIVE GenerateTableAliasSet(_, _, _)
RECURSIVE GenerateChildren(_, _, _, _)
GenerateChildren(h, expr, acc, i) ==
  IF i > Len(h[expr].children) \/ ~acc.ok THEN acc
  ELSE GenerateChildren(h, expr,
         GenerateTableAliasSet(h, h[expr].children[i], acc.table_alias_set), i + 1)

\* Only the first child of a node is visited.
GenerateTableAliasSetFirstChild(h, expr, table_alias_set) ==
  IF h[expr].type = "COLUMN_VALUE"
  THEN LET tbl == h[expr].table
       IN IF tbl = "" THEN [table_alias_set |-> table_alias_set, ok |-> FALSE]
          ELSE [table_alias_set |-> table_alias_set \cup {tbl}, ok |-> TRUE]
  ELSE IF h[expr].type = "VALUE_TUPLE"
  THEN [table_alias_set |-> table_alias_set, ok |-> FALSE]
  ELSE IF h[expr].children = <<>>
  THEN [table_alias_set |-> table_alias_set, ok |-> TRUE]
  ELSE GenerateTableAliasSet(h, h[expr].children[1], table_alias_set)

GenerateTableAliasSet(h, expr, table_alias_set) ==
  IF h[expr].type = "COLUMN_VALUE"
  THEN LET tbl == h[expr].table
       IN IF tbl = "" THEN [table_alias_set |-> table_alias_set, ok |-> FALSE]
          ELSE [table_alias_set |-> table_alias_set \cup {tbl}, ok |-> TRUE]
  ELSE IF h[expr].type = "VALUE_TUPLE"
  THEN [table_alias_set |-> table_alias_set, ok |-> FALSE]
  ELSE GenerateChildren(h, expr, [table_alias_set |-> table_alias_set, ok |-> TRUE], 1)

(***************************************************************************)
(* optimizer::ExprSet and optimizer::ExprMap hold addresses of expressions *)
(* and look them up by the expressions' operator==.  An ExprSet is the set *)
(* of the addresses it holds, an ExprMap a sequence of entries (key, val). *)
(***************************************************************************)
ExprSetInsert(h, set, expr) ==
  IF \E x \in set : Equals(h, x, expr) THEN set ELSE set \cup {expr}

RECURSIVE ExprSetOf(_, _, _, _)
ExprSetOf(h, exprs, i, set) ==
  IF i > Len(exprs) THEN set
  ELSE ExprSetOf(h, exprs, i + 1, ExprSetInsert(h, set, exprs[i]))

\* operator== of two std::unordered_set: equal sizes, and every element of
\* one has, among the elements of the other with an equivalent key, one that
\* is == to it as an element, that is, the same address.
ExprSetEquals(h, l_set, r_set) ==
  /\ Cardinality(l_set) = Cardinality(r_set)
  /\ \A x \in l_set : \E y \in r_set : Equals(h, x, y) /\ x = y

\* The entry of expr_map whose key equals expr (0 is end()).
ExprMapFind(h, expr_map, expr) ==
  IF \E i \in 1..Len(expr_map) : Equals(h, expr_map[i].key, expr)
  THEN CHOOSE i \in 1..Len(expr_map) : Equals(h, expr_map[i].key, expr)
  ELSE 0

ExprMapCount(h, expr_map, expr) ==
  IF ExprMapFind(h, expr_map, expr) # 0 THEN 1 ELSE 0

(***************************************************************************)
(* ExpressionUtil::EqualExpressions                                        *)
(***************************************************************************)
EqualExpressions(h, l, r, ordered) ==
  IF Len(l) # Len(r) THEN FALSE
  ELSE IF ordered
       THEN ~\E i \in 1..Len(l) : Equals(h, l[i], r[i])
       ELSE LET l_set == ExprSetOf(h, l, 1, {})
                r_set == ExprSetOf(h, r, 1, {})
            IN ExprSetEquals(h, l_set, r_set)

(***************************************************************************)
(* ExpressionUtil::JoinAnnotatedExprs                                      *)
(***************************************************************************)
RECURSIVE JoinLoopSwapped(_, _, _, _)
JoinLoopSwapped(h, exprs, i, children) ==
  IF i > Len(exprs) THEN [h |-> h, children |-> children]
  ELSE LET c == Copy(h, exprs[i])
           shared == ConjunctionExpression("CONJUNCTION_AND", <<c.id>> \o children)
       IN JoinLoopSwapped(Append(c.h, shared), exprs, i + 1, <<Len(c.h) + 1>>)

JoinAnnotatedExprsSwapped(h, exprs) ==
  IF exprs = <<>> THEN [h |-> h, id |-> NULLPTR]
  ELSE LET first == Copy(h, exprs[1])
           done == JoinLoopSwapped(first.h, exprs, 2, <<first.id>>)
       IN [h |-> done.h, id |-> done.children[1]]

RECURSIVE JoinLoop(_, _, _, _)
JoinLoop(h, exprs, i, children) ==
  IF i > Len(exprs) THEN [h |-> h, children |-> children]
  ELSE LET c == Copy(h, exprs[i])
           shared == ConjunctionExpression("CONJUNCTION_AND", Append(children, c.id))
       IN JoinLoop(Append(c.h, shared), exprs, i + 1, <<Len(c.h) + 1>>)

JoinAnnotatedExprs(h, exprs) ==
  IF exprs = <<>> THEN [h |-> h, id |-> NULLPTR]
  ELSE LET first == Copy(h, exprs[1])
           done == JoinLoop(first.h, exprs, 2, <<first.id>>)
       IN [h |-> done.h, id |-> done.children[1]]

(***************************************************************************)
(* ExpressionUtil::GetTupleAndAggregateExprs: the walk into the two        *)
(* vectors, and the overload that enters what was found into an ExprMap.   *)
(***************************************************************************)
IsAggregateExpression(type) ==
  type \in {"AGGREGATE_COUNT", "AGGREGATE_SUM", "AGGREGATE_MIN",
            "AGGREGATE_MAX", "AGGREGATE_AVG"}

RECURSIVE GetTupleAndAggregateExprsVectors(_, _, _)
RECURSIVE WalkChildren(_, _, _, _)
WalkChildren(h, found, expr, i) ==
  IF i > Len(h[expr].children) \/ ~found.ok THEN found
  ELSE WalkChildren(h, GetTupleAndAggregateExprsVectors(h, found, h[expr].children[i]),
                    expr, i + 1)

GetTupleAndAggregateExprsVectors(h, found, expr) ==
  IF IsAggregateExpression(h[expr].type)
  THEN [found EXCEPT !.aggr_exprs = Append(@, expr)]
  ELSE IF h[expr].type = "COLUMN_VALUE"
  THEN IF h[expr].children # <<>> THEN [found EXCEPT !.ok = FALSE]
       ELSE [found EXCEPT !.tv_exprs = Append(@, expr)]
  ELSE IF h[expr].type = "VALUE_TUPLE" THEN [found EXCEPT !.ok = FALSE]
  ELSE WalkChildren(h, found, expr, 1)

RECURSIVE EmplaceAll(_, _, _, _)
EmplaceAll(h, expr_map, exprs, i) ==
  IF i > Len(exprs) THEN expr_map
  ELSE EmplaceAll(h,
         IF ExprMapCount(h, expr_map, exprs[i]) = 0
         THEN Append(expr_map, [key |-> exprs[i], val |-> Len(expr_map)])
         ELSE expr_map,
         exprs, i + 1)

\* The aggregates are entered before the column references.
GetTupleAndAggregateExprsAggrFirst(h, expr_map, expr) ==
  LET found == GetTupleAndAggregateExprsVectors(h,
                 [aggr_exprs |-> <<>>, tv_exprs |-> <<>>, ok |-> TRUE], expr)
  IN IF ~found.ok THEN [expr_map |-> expr_map, ok |-> FALSE]
     ELSE [expr_map |-> EmplaceAll(h, EmplaceAll(h, expr_map, found.aggr_exprs, 1),
                                   found.tv_exprs, 1),
           ok |-> TRUE]

GetTupleAndAggregateExprs(h, expr_map, expr) ==
  LET found == GetTupleAndAggregateExprsVectors(h,
                 [aggr_exprs |-> <<>>, tv_exprs |-> <<>>, ok |-> TRUE], expr)
  IN IF ~found.ok THEN [expr_map |-> expr_map, ok |-> FALSE]
     ELSE [expr_map |-> EmplaceAll(h, EmplaceAll(h, expr_map, found.tv_exprs, 1),
                                   found.aggr_exprs, 1),
           ok |-> TRUE]

(***************************************************************************)
(* AbstractExpression::CopyWithChildren: a new node of the receiver's kind *)
(* and annotations holding exactly the given children; a child count that  *)
(* is not the receiver's own is fatal.                                     *)
(***************************************************************************)
CopyWithChildren(h, expr, children) ==
  IF Len(children) # Len(h[expr].children)
  THEN [h |-> h, id |-> NULLPTR, ok |-> FALSE]
  ELSE [h |-> Append(h, [h[expr] EXCEPT !.children = children]),
        id |-> Len(h) + 1, ok |-> TRUE]

(***************************************************************************)
(* ExpressionUtil::ConvertExprCVNodes.  A failed TERRIER_ASSERT ends the   *)
(* call: ok is FALSE and no tree is returned.                              *)
(***************************************************************************)
\* The first map, in order, that counts child among its keys (0: none).
RECURSIVE FirstMapWith(_, _, _, _)
FirstMapWith(h, child_expr_maps, child_expr, k) ==
  IF k > Len(child_expr_maps) THEN 0
  ELSE IF ExprMapCount(h, child_expr_maps[k], child_expr) # 0 THEN k
  ELSE FirstMapWith(h, child_expr_maps, child_expr, k + 1)

RECURSIVE ConvertExprCVNodes(_, _, _)
RECURSIVE ConvertChildren(_, _, _, _, _)
ConvertChildren(h, expr, child_expr_maps, i, children) ==
  IF i > Len(h[expr].children) THEN [h |-> h, children |-> children, ok |-> TRUE]
  ELSE
    LET child_expr == h[expr].children[i]
        k == IF h[child_expr].type # "COLUMN_VALUE"
             THEN FirstMapWith(h, child_expr_maps, child_expr, 1) ELSE 0
    IN IF k # 0
       THEN LET type == h[child_expr].rtype
                iter == ExprMapFind(h, child_expr_maps[k], expr)
            IN IF iter = 0
               THEN [h |-> h, children |-> children, ok |-> FALSE]
               ELSE LET value_idx == child_expr_maps[k][iter].val
                        dv == DerivedValueExpression(type, k - 1, value_idx)
                    IN ConvertChildren(Append(h, dv), expr, child_expr_maps, i + 1,
                                       Append(children, Len(h) + 1))
       ELSE LET sub == ConvertExprCVNodes(h, child_expr, child_expr_maps)
            IN IF ~sub.ok
               THEN [h |-> sub.h, children |-> children, ok |-> FALSE]
               ELSE ConvertChildren(sub.h, expr, child_expr_maps, i + 1,
                                    Append(children, sub.id))

\* The rebuilt node receives its children in reverse order.
ConvertExprCVNodesReversed(h, expr, child_expr_maps) ==
  IF expr = NULLPTR THEN [h |-> h, id |-> NULLPTR, ok |-> TRUE]
  ELSE LET kids == ConvertChildren(h, expr, child_expr_maps, 1, <<>>)
       IN IF ~kids.ok THEN [h |-> kids.h, id |-> NULLPTR, ok |-> FALSE]
          ELSE CopyWithChildren(kids.h, expr,
                 [i \in 1..Len(kids.children) |->
                    kids.children[Len(kids.children) + 1 - i]])

ConvertExprCVNodes(h, expr, child_expr_maps) ==
  IF expr = NULLPTR THEN [h |-> h, id |-> NULLPTR, ok |-> TRUE]
  ELSE LET kids == ConvertChildren(h, expr, child_expr_maps, 1, <<>>)
       IN IF ~kids.ok THEN [h |-> kids.h, id |-> NULLPTR, ok |-> FALSE]
          ELSE CopyWithChildren(kids.h, expr, kids.children)

(***************************************************************************)
(* ExpressionUtil::EvaluateExpression.  The result carries, besides the    *)
(* heap and the returned address, the log of the calls that returned: the  *)
(* argument and the result of each.  The trees here hold no CaseExpression, *)
(* so that branch is never taken.                                          *)
(***************************************************************************)
Returns(r, expr) ==
  [h |-> r.h, id |-> r.id, ok |-> r.ok,
   log |-> IF r.ok THEN r.log \cup {[expr |-> expr, id |-> r.id]} ELSE r.log]

RECURSIVE EvaluateExpression(_, _, _, _)
RECURSIVE EvaluateChildren(_, _, _, _, _, _)
EvaluateChildren(h, expr_maps, expr, i, children, log) ==
  IF i > Len(h[expr].children)
  THEN [h |-> h, children |-> children, ok |-> TRUE, log |-> log]
  ELSE LET sub == EvaluateExpression(h, expr_maps, h[expr].children[i], log)
       IN IF ~sub.ok
          THEN [h |-> sub.h, children |-> children, ok |-> FALSE, log |-> sub.log]
          ELSE EvaluateChildren(sub.h, expr_maps, expr, i + 1,
                                Append(children, sub.id), sub.log)

\* The derived value names the last map that holds the column, not the first.
RECURSIVE LastMapWith(_, _, _, _)
LastMapWith(h, expr_maps, expr, k) ==
  IF k = 0 THEN 0
  ELSE IF ExprMapCount(h, expr_maps[k], expr) # 0 THEN k
  ELSE LastMapWith(h, expr_maps, expr, k - 1)

EvaluateExpressionLastMap(h, expr_maps, expr, log) ==
  IF expr = NULLPTR
  THEN [h |-> h, id |-> NULLPTR, ok |-> TRUE, log |-> log]
  ELSE
    LET children_size == Len(h[expr].children)
        kids == EvaluateChildren(h, expr_maps, expr, 1,
                                 [j \in 1..children_size |-> NULLPTR], log)
        k == LastMapWith(kids.h, expr_maps, expr, Len(expr_maps))
    IN IF ~kids.ok
       THEN [h |-> kids.h, id |-> NULLPTR, ok |-> FALSE, log |-> kids.log]
       ELSE IF h[expr].type = "COLUMN_VALUE" /\ children_size # 0
       THEN [h |-> kids.h, id |-> NULLPTR, ok |-> FALSE, log |-> kids.log]
       ELSE IF h[expr].type = "COLUMN_VALUE" /\ k # 0
       THEN LET iter == ExprMapFind(kids.h, expr_maps[k], expr)
                dv == DerivedValueExpression(h[expr].rtype, k - 1, expr_maps[k][iter].val)
            IN Returns([h |-> Append(kids.h, dv), id |-> Len(kids.h) + 1,
                        ok |-> TRUE, log |-> kids.log], expr)
       ELSE IF h[expr].type = "VALUE_TUPLE"
       THEN [h |-> kids.h, id |-> NULLPTR, ok |-> FALSE, log |-> kids.log]
       ELSE LET c == CopyWithChildren(kids.h, expr, kids.children)
            IN Returns([h |-> c.h, id |-> c.id, ok |-> c.ok, log |-> kids.log], expr)

\* An unbound column reference fails an assertion instead of being copied.
EvaluateExpressionUnboundFatal(h, expr_maps, expr, log) ==
  IF expr = NULLPTR
  THEN [h |-> h, id |-> NULLPTR, ok |-> TRUE, log |-> log]
  ELSE
    LET children_size == Len(h[expr].children)
        kids == EvaluateChildren(h, expr_maps, expr, 1,
                                 [j \in 1..children_size |-> NULLPTR], log)
        k == FirstMapWith(kids.h, expr_maps, expr, 1)
    IN IF ~kids.ok
       THEN [h |-> kids.h, id |-> NULLPTR, ok |-> FALSE, log |-> kids.log]
       ELSE IF h[expr].type = "COLUMN_VALUE" /\ children_size # 0
       THEN [h |-> kids.h, id |-> NULLPTR, ok |-> FALSE, log |-> kids.log]
       ELSE IF h[expr].type = "COLUMN_VALUE" /\ k # 0
       THEN LET iter == ExprMapFind(kids.h, expr_maps[k], expr)
                dv == DerivedValueExpression(h[expr].rtype, k - 1, expr_maps[k][iter].val)
            IN Returns([h |-> Append(kids.h, dv), id |-> Len(kids.h) + 1,
                        ok |-> TRUE, log |-> kids.log], expr)
       ELSE IF h[expr].type \in {"VALUE_TUPLE", "COLUMN_VALUE"}
       THEN [h |-> kids.h, id |-> NULLPTR, ok |-> FALSE, log |-> kids.log]
       ELSE LET c == CopyWithChildren(kids.h, expr, kids.children)
            IN Returns([h |-> c.h, id |-> c.id, ok |-> c.ok, log |-> kids.log], expr)

\* The assertion on VALUE_TUPLE is missing: a derived value is copied.
EvaluateExpressionCopiesTuple(h, expr_maps, expr, log) ==
  IF expr = NULLPTR
  THEN [h |-> h, id |-> NULLPTR, ok |-> TRUE, log |-> log]
  ELSE
    LET children_size == Len(h[expr].children)
        kids == EvaluateChildren(h, expr_maps, expr, 1,
                                 [j \in 1..children_size |-> NULLPTR], log)
        k == FirstMapWith(kids.h, expr_maps, expr, 1)
    IN IF ~kids.ok
       THEN [h |-> kids.h, id |-> NULLPTR, ok |-> FALSE, log |-> kids.log]
       ELSE IF h[expr].type = "COLUMN_VALUE" /\ children_size # 0
       THEN [h |-> kids.h, id |-> NULLPTR, ok |-> FALSE, log |-> kids.log]
       ELSE IF h[expr].type = "COLUMN_VALUE" /\ k # 0
       THEN LET iter == ExprMapFind(kids.h, expr_maps[k], expr)
                dv == DerivedValueExpression(h[expr].rtype, k - 1, expr_maps[k][iter].val)
            IN Returns([h |-> Append(kids.h, dv), id |-> Len(kids.h) + 1,
                        ok |-> TRUE, log |-> kids.log], expr)
       ELSE LET c == CopyWithChildren(kids.h, expr, kids.children)
            IN Returns([h |-> c.h, id |-> c.id, ok |-> c.ok, log |-> kids.log], expr)

EvaluateExpression(h, expr_maps, expr, log) ==
  IF expr = NULLPTR
  THEN [h |-> h, id |-> NULLPTR, ok |-> TRUE, log |-> log]
  ELSE
    LET children_size == Len(h[expr].children)
        \* a vector of children_size null pointers, the results pushed behind
        kids == EvaluateChildren(h, expr_maps, expr, 1,
                                 [j \in 1..children_size |-> NULLPTR], log)
        k == FirstMapWith(kids.h, expr_maps, expr, 1)
    IN IF ~kids.ok
       THEN [h |-> kids.h, id |-> NULLPTR, ok |-> FALSE, log |-> kids.log]
       ELSE IF h[expr].type = "COLUMN_VALUE" /\ children_size # 0
       THEN [h |-> kids.h, id |-> NULLPTR, ok |-> FALSE, log |-> kids.log]
       ELSE IF h[expr].type = "COLUMN_VALUE" /\ k # 0
       THEN LET iter == ExprMapFind(kids.h, expr_maps[k], expr)
                dv == DerivedValueExpression(h[expr].rtype, k - 1, expr_maps[k][iter].val)
            IN Returns([h |-> Append(kids.h, dv), id |-> Len(kids.h) + 1,
                        ok |-> TRUE, log |-> kids.log], expr)
       \* an unbound column (a warning), an aggregate and a function fall
       \* through to the copy
       ELSE IF h[expr].type = "VALUE_TUPLE"
       THEN [h |-> kids.h, id |-> NULLPTR, ok |-> FALSE, log |-> kids.log]
       ELSE LET c == CopyWithChildren(kids.h, expr, kids.children)
            IN Returns([h |-> c.h, id |-> c.id, ok |-> c.ok, log |-> kids.log], expr)

(***************************************************************************)
(* Spec: calls of ExpressionUtil.  Each call builds its arguments on an    *)
(* empty heap: expression vectors over a pool that holds every pool tree   *)
(* as two objects, or a tree and one map per input of a plan node with two *)
(* inputs, the keys of the maps being objects of their own: for a          *)
(* conversion they equal subexpressions of the tree, for an evaluation     *)
(* they are columns.                                                       *)
(***************************************************************************)
UtilLeaves ==
  {ColumnValueExpression("t1", "a", TypeId_INTEGER, ""),
   AggregateExpression("AGGREGATE_COUNT", TypeId_BIGINT, <<>>)}

\* The columns the maps of EvaluateExpression are keyed by.
ColumnKeys ==
  {ColumnValueExpression("t1", "a", TypeId_INTEGER, ""),
   ColumnValueExpression("t2", "b", TypeId_DECIMAL, "x")}

UtilKinds ==
  {[type |-> "AGGREGATE_SUM", rtype |-> TypeId_BIGINT, arity |-> {1}],
   [type |-> "OPERATOR_PLUS", rtype |-> TypeId_DECIMAL, arity |-> {2}]}

UtilExprs == TreesUpTo(UtilLeaves, UtilKinds, MaxNodes)

PoolTrees ==
  LET a == ColumnValueExpression("t1", "a", TypeId_INTEGER, "")
      s == AggregateExpression("AGGREGATE_SUM", TypeId_BIGINT,
             <<ColumnValueExpression("t2", "b", TypeId_DECIMAL, "x")>>)
  IN <<a, s, a, s>>

Pool == AllocAll(<<>>, PoolTrees, 1, <<>>)

SeqsUpTo(S, n) == UNION {[1..m -> S] : m \in 0..n}

RECURSIVE SubTrees(_)
SubTrees(t) == {t} \cup UNION {SubTrees(t.children[i]) : i \in 1..Len(t.children)}

\* The key sequences of a map: distinct trees, the offset of a key being its
\* place in the sequence, from 0.
KeySeqs(S) ==
  {ks \in SeqsUpTo(S, MaxKeys) : \A i, j \in 1..Len(ks) : ks[i] = ks[j] => i = j}

Inputs == {1, 2}

ExprMapOf(ids) == [i \in 1..Len(ids) |-> [key |-> ids[i], val |-> i - 1]]

Fresh == last.op = "none"

utilVars == <<nodeVars, enfVars>>

DoEqualExpressions ==
  /\ Fresh
  /\ \E l \in SeqsUpTo(Range(Pool.ids), MaxLen), r \in SeqsUpTo(Range(Pool.ids), MaxLen),
        ordered \in BOOLEAN :
       /\ heap' = Pool.h
       /\ last' = [op |-> "EqualExpressions", ok |-> TRUE, l |-> l, r |-> r,
                   ordered |-> ordered,
                   result |-> EqualExpressions(Pool.h, l, r, ordered)]
  /\ UNCHANGED utilVars

DoJoinAnnotatedExprs ==
  /\ Fresh
  /\ \E exprs \in SeqsUpTo(Range(Pool.ids), MaxLen) :
       LET res == JoinAnnotatedExprs(Pool.h, exprs)
       IN /\ heap' = res.h
          /\ last' = [op |-> "JoinAnnotatedExprs", ok |-> TRUE, exprs |-> exprs,
                      result |-> res.id]
  /\ UNCHANGED utilVars

DoConvertExprCVNodes ==
  /\ Fresh
  /\ \E t \in UtilExprs : \E keys \in [Inputs -> KeySeqs(SubTrees(t))] :
       LET e == Alloc(<<>>, t)
           m1 == AllocAll(e.h, keys[1], 1, <<>>)
           m2 == AllocAll(m1.h, keys[2], 1, <<>>)
           maps == <<ExprMapOf(m1.ids), ExprMapOf(m2.ids)>>
           res == ConvertExprCVNodes(m2.h, e.id, maps)
       IN /\ heap' = res.h
          /\ last' = [op |-> "ConvertExprCVNodes", ok |-> res.ok, expr |-> e.id,
                      maps |-> maps, result |-> res.id]
  /\ UNCHANGED utilVars

\* The result of a conversion is converted again, against the same maps.
DoConvertAgain ==
  /\ last.op = "ConvertExprCVNodes"
  /\ last.ok
  /\ LET res == ConvertExprCVNodes(heap, last.result, last.maps)
     IN /\ heap' = res.h
        /\ last' = [op |-> "ConvertAgain", ok |-> res.ok, expr |-> last.result,
                    maps |-> last.maps, result |-> res.id]
  /\ UNCHANGED utilVars

DoEvaluateExpression ==
  /\ Fresh
  /\ \E t \in UtilExprs : \E keys \in [Inputs -> KeySeqs(ColumnKeys)] :
       LET e == Alloc(<<>>, t)
           m1 == AllocAll(e.h, keys[1], 1, <<>>)
           m2 == AllocAll(m1.h, keys[2], 1, <<>>)
           maps == <<ExprMapOf(m1.ids), ExprMapOf(m2.ids)>>
           res == EvaluateExpression(m2.h, maps, e.id, {})
       IN /\ heap' = res.h
          /\ last' = [op |-> "EvaluateExpression", ok |-> res.ok, expr |-> e.id,
                      maps |-> maps, result |-> res.id, log |-> res.log]
  /\ UNCHANGED utilVars

OrderingTypes ==
  {"COMPARE_LESS_THAN", "COMPARE_GREATER_THAN",
   "COMPARE_LESS_THAN_OR_EQUAL_TO", "COMPARE_GREATER_THAN_OR_EQUAL_TO"}

ComparisonTypes == OrderingTypes \cup {"COMPARE_EQUAL", "COMPARE_NOT_EQUAL"}

ExpressionTypes == ComparisonTypes \cup {"OPERATOR_PLUS", "CONJUNCTION_AND"}

Operands == (0 - MaxOperand)..MaxOperand

DoReverseComparisonExpressionType ==
  /\ Fresh
  /\ \E type \in ExpressionTypes :
       last' = [op |-> "ReverseComparisonExpressionType", ok |-> TRUE, type |-> type,
                result |-> ReverseComparisonExpressionType(type)]
  /\ UNCHANGED <<heap, utilVars>>

\* The trees walked by GetTupleAndAggregateExprs and GenerateTableAliasSet.
WalkLeaves == ColumnKeys \cup {AggregateExpression("AGGREGATE_COUNT", TypeId_BIGINT, <<>>)}

WalkExprs == TreesUpTo(WalkLeaves, UtilKinds, MaxNodes)

\* A tree is walked into an empty map.
DoGetTupleAndAggregateExprs ==
  /\ Fresh
  /\ \E t \in WalkExprs :
       LET e == Alloc(<<>>, t)
           res == GetTupleAndAggregateExprs(e.h, <<>>, e.id)
       IN /\ heap' = e.h
          /\ last' = [op |-> "GetTupleAndAggregateExprs", ok |-> res.ok,
                      walked |-> {e.id}, before |-> <<>>, expr_map |-> res.expr_map]
  /\ UNCHANGED utilVars

\* A second tree is walked into the map the first walk filled.
DoGetTupleAndAggregateExprsAgain ==
  /\ last.op = "GetTupleAndAggregateExprs"
  /\ last.ok
  /\ \E t \in WalkExprs :
       LET e == Alloc(heap, t)
           res == GetTupleAndAggregateExprs(e.h, last.expr_map, e.id)
       IN /\ heap' = e.h
          /\ last' = [op |-> "GetTupleAndAggregateExprsAgain", ok |-> res.ok,
                      walked |-> last.walked \cup {e.id}, before |-> last.expr_map,
                      expr_map |-> res.expr_map]
  /\ UNCHANGED utilVars

\* The sets GenerateTableAliasSet is handed.
AliasSets == SUBSET {"t0", "t1"}

DoGenerateTableAliasSet ==
  /\ Fresh
  /\ \E t \in WalkExprs : \E table_alias_set \in AliasSets :
       LET e == Alloc(<<>>, t)
           res == GenerateTableAliasSet(e.h, e.id, table_alias_set)
       IN /\ heap' = e.h
          /\ last' = [op |-> "GenerateTableAliasSet", ok |-> res.ok, expr |-> e.id,
                      before |-> table_alias_set,
                      table_alias_set |-> res.table_alias_set]
  /\ UNCHANGED utilVars

\* The same tree is walked again, into the set the first walk left.
DoGenerateTableAliasSetAgain ==
  /\ last.op = "GenerateTableAliasSet"
  /\ last.ok
  /\ LET res == GenerateTableAliasSet(heap, last.expr, last.table_alias_set)
     IN last' = [op |-> "GenerateTableAliasSetAgain", ok |-> res.ok, expr |-> last.expr,
                 before |-> last.table_alias_set,
                 table_alias_set |-> res.table_alias_set]
  /\ UNCHANGED <<heap, utilVars>>

\* The tree a conversion or an evaluation returned is evaluated, against the
\* same maps.
DoEvaluateAgain ==
  /\ last.op \in {"ConvertExprCVNodes", "EvaluateExpression"}
  /\ last.ok
  /\ LET res == EvaluateExpression(heap, last.maps, last.result, {})
     IN /\ heap' = res.h
        /\ last' = [op |-> "EvaluateAgain", ok |-> res.ok, expr |-> last.result,
                    maps |-> last.maps, result |-> res.id, log |-> res.log]
  /\ UNCHANGED utilVars

Next ==
  \/ DoEqualExpressions
  \/ DoJoinAnnotatedExprs
  \/ DoConvertExprCVNodes
  \/ DoConvertAgain
  \/ DoEvaluateExpression
  \/ DoEvaluateAgain
  \/ DoReverseComparisonExpressionType
  \/ DoGetTupleAndAggregateExprs
  \/ DoGetTupleAndAggregateExprsAgain
  \/ DoGenerateTableAliasSet
  \/ DoGenerateTableAliasSetAgain

Spec == Init /\ [][Next]_vars

(***************************************************************************)
(* C4: with ordered true, EqualExpressions returns true iff the two        *)
(* vectors have the same length and, at every position, the elements are   *)
(* structurally equal.  The code returns false as soon as a position holds *)
(* two equal elements.                                                     *)
(***************************************************************************)
C4_OrderedPointwise ==
  (last.op = "EqualExpressions" /\ last.ordered) =>
    (last.result <=>
       /\ Len(last.l) = Len(last.r)
       /\ \A i \in 1..Len(last.l) : Equals(heap, last.l[i], last.r[i]))

(***************************************************************************)
(* C5: with ordered false, EqualExpressions returns true iff the two       *)
(* vectors have the same length and the same set of elements under         *)
(* structural equality and hash.  The code compares the two sets' elements *)
(* as addresses.                                                           *)
(***************************************************************************)
SameExprSet(h, l, r) ==
  /\ \A i \in 1..Len(l) : \E j \in 1..Len(r) :
       Equals(h, l[i], r[j]) /\ Hash(h, l[i]) = Hash(h, r[j])
  /\ \A j \in 1..Len(r) : \E i \in 1..Len(l) :
       Equals(h, l[i], r[j]) /\ Hash(h, l[i]) = Hash(h, r[j])

C5_UnorderedSameSet ==
  (last.op = "EqualExpressions" /\ ~last.ordered) =>
    (last.result <=> (Len(last.l) = Len(last.r) /\ SameExprSet(heap, last.l, last.r)))

(***************************************************************************)
(* C6: JoinAnnotatedExprs of no predicate returns no tree; of p1..pn it    *)
(* returns the left-deep AND(...AND(AND(p1, p2), p3)..., pn) over deep     *)
(* copies of the pi: n-1 AND nodes, none of the result's objects is an     *)
(* object of the input.                                                    *)
(***************************************************************************)
RECURSIVE AndFold(_, _)
AndFold(ts, i) ==
  IF i = 1 THEN ts[1]
  ELSE ConjunctionExpression("CONJUNCTION_AND", <<AndFold(ts, i - 1), ts[i]>>)

AndNodes(h, e) == {n \in Reach(h, e) : h[n].type = "CONJUNCTION_AND"}

MapsWith(h, maps, t) ==
  {k \in 1..Len(maps) : \E i \in 1..Len(maps[k]) : TreeOf(h, maps[k][i].key) = t}

OffsetIn(h, map, t) ==
  map[CHOOSE i \in 1..Len(map) : TreeOf(h, map[i].key) = t].val

RECURSIVE Converted(_, _, _)
Converted(h, maps, t) ==
  IF t.type # "COLUMN_VALUE" /\ Cardinality(MapsWith(h, maps, t)) = 1
  THEN LET k == CHOOSE k \in MapsWith(h, maps, t) : TRUE
       IN DerivedValueExpression(t.rtype, k - 1, OffsetIn(h, maps[k], t))
  ELSE [t EXCEPT !.children =
          [i \in 1..Len(t.children) |-> Converted(h, maps, t.children[i])]]

C8_ConvertReplacesMatched ==
  last.op = "ConvertExprCVNodes" =>
    /\ last.ok
    /\ TreeOf(heap, last.result) = Converted(heap, last.maps, TreeOf(heap, last.expr))

(***************************************************************************)
(* C9: converting a tree none of whose subexpressions is a key of a map    *)
(* (every matched subexpression is already a positional reference)         *)
(* returns a new tree structurally equal to it.                            *)
(***************************************************************************)
FullyPositional(h, e, maps) ==
  \A n \in Reach(h, e) : \A k \in 1..Len(maps) : ExprMapFind(h, maps[k], n) = 0

C9_ConvertIdempotent ==
  (last.op = "ConvertAgain" /\ FullyPositional(heap, last.expr, last.maps)) =>
    /\ last.ok
    /\ last.result # last.expr
    /\ Equals(heap, last.result, last.expr)
    /\ TreeOf(heap, last.result) = TreeOf(heap, last.expr)

C9_Witness ==
  /\ last.op = "ConvertAgain"
  /\ FullyPositional(heap, last.expr, last.maps)
  /\ Len(heap[last.expr].children) = 2
  /\ heap[heap[last.expr].children[1]].type = "VALUE_TUPLE"
  /\ heap[heap[last.expr].children[2]].type = "COLUMN_VALUE"

(***************************************************************************)
(* C10: every call of EvaluateExpression on a column reference that is a   *)
(* key of at least one map returns a DerivedValueExpression that carries   *)
(* the column's return type, the index of the first map, in order, that    *)
(* holds the column, and the offset that map records for it.               *)
(***************************************************************************)
BoundColumn(h, maps, e) ==
  /\ h[e].type = "COLUMN_VALUE"
  /\ \E k \in 1..Len(maps) : ExprMapFind(h, maps[k], e) # 0

FirstHolder(h, maps, e) ==
  CHOOSE k \in 1..Len(maps) :
    /\ ExprMapFind(h, maps[k], e) # 0
    /\ \A j \in 1..(k - 1) : ExprMapFind(h, maps[j], e) = 0

C10_ColumnBecomesDerivedValue ==
  last.op = "EvaluateExpression" =>
    \A c \in last.log :
      BoundColumn(heap, last.maps, c.expr) =>
        LET k == FirstHolder(heap, last.maps, c.expr)
            map == last.maps[k]
        IN heap[c.id] = DerivedValueExpression(heap[c.expr].rtype, k - 1,
                          map[ExprMapFind(heap, map, c.expr)].val)

C10_Witness ==
  /\ last.op = "EvaluateExpression"
  /\ last.ok
  /\ heap[last.expr].type = "COLUMN_VALUE"
  /\ ExprMapFind(heap, last.maps[1], last.expr) = 2
  /\ ExprMapFind(heap, last.maps[2], last.expr) = 1

(***************************************************************************)
(* C11: every call of EvaluateExpression on a column reference that no map *)
(* holds returns normally, and what it returns is a new column reference   *)
(* equal to the original, not a positional reference.                      *)
(***************************************************************************)
Evaluated == last.op \in {"EvaluateExpression", "EvaluateAgain"}

UnboundColumn(h, maps, e) ==
  /\ h[e].type = "COLUMN_VALUE"
  /\ \A k \in 1..Len(maps) : ExprMapFind(h, maps[k], e) = 0

C11_UnboundColumnKept ==
  Evaluated =>
    /\ UnboundColumn(heap, last.maps, last.expr) => last.ok
    /\ \A c \in last.log :
         UnboundColumn(heap, last.maps, c.expr) =>
           /\ c.id # NULLPTR
           /\ c.id # c.expr
           /\ heap[c.id].type = "COLUMN_VALUE"
           /\ Equals(heap, c.id, c.expr)

C11_Witness ==
  /\ last.op = "EvaluateExpression"
  /\ UnboundColumn(heap, last.maps, last.expr)
  /\ last.maps[1] # <<>>
  /\ last.ok
  /\ heap[last.result].type = "COLUMN_VALUE"

(***************************************************************************)
(* C12: EvaluateExpression of a node that is neither a column reference    *)
(* nor a case expression, with n children, returns a node with exactly n   *)
(* children, the i-th being what the evaluation of the i-th child          *)
(* returned, none absent.  The code hands CopyWithChildren n null pointers *)
(* followed by the n results.                                              *)
(***************************************************************************)
NoValueTuple(h, e) == \A n \in Reach(h, e) : h[n].type # "VALUE_TUPLE"

C12_RebuiltOverEvaluatedChildren ==
  (/\ last.op = "EvaluateExpression"
   /\ heap[last.expr].type # "COLUMN_VALUE"
   /\ NoValueTuple(heap, last.expr)) =>
    /\ last.ok
    /\ Len(heap[last.result].children) = Len(heap[last.expr].children)
    /\ \A i \in 1..Len(heap[last.expr].children) :
         /\ heap[last.result].children[i] # NULLPTR
         /\ [expr |-> heap[last.expr].children[i],
             id |-> heap[last.result].children[i]] \in last.log

(***************************************************************************)
(* C19: EvaluateExpression of a tree that holds a positional reference at  *)
(* any position, such as the result of an earlier conversion or evaluation *)
(* that bound something, fails an assertion and returns no tree.           *)
(***************************************************************************)
C19_NoDoubleEvaluation ==
  (last.op = "EvaluateAgain" /\ ~NoValueTuple(heap, last.expr)) =>
    /\ ~last.ok
    /\ last.result = NULLPTR

C19_Witness ==
  /\ last.op = "EvaluateAgain"
  /\ heap[last.expr].type = "VALUE_TUPLE"
  /\ heap[last.expr].tuple_idx = 1
  /\ ~last.ok

(***************************************************************************)
(* C13: ReverseComparisonExpressionType maps a comparison kind op to a     *)
(* kind op' with (a op b) exactly when (b op' a), for all integers a and b *)
(* of the operand domain, and returns every kind other than the four       *)
(* ordering comparisons unchanged.  The code maps > to <=, >= to <, < to   *)
(* >= and <= to >: the negation, not the mirror image.                     *)
(***************************************************************************)
C13_ReverseKeepsMeaning ==
  last.op = "ReverseComparisonExpressionType" =>
    /\ last.type \in ComparisonTypes =>
         \A a, b \in Operands :
           Compare(last.type, a, b) <=> Compare(last.result, b, a)
    /\ last.type \notin OrderingTypes => last.result = last.type

(***************************************************************************)
(* C14: after any sequence of walks into a map that started empty, every   *)
(* column reference and every aggregate of the walked trees that is not    *)
(* below an aggregate is a key exactly once, no node below an aggregate is *)
(* a key, a key keeps the index it got when entered, the indices are       *)
(* exactly 0..size-1, and of the keys one walk enters the column           *)
(* references have smaller indices than the aggregates.                    *)
(***************************************************************************)
RECURSIVE Recorded(_, _)
Recorded(h, e) ==
  IF IsAggregateExpression(h[e].type) \/ h[e].type = "COLUMN_VALUE" THEN {e}
  ELSE UNION {Recorded(h, h[e].children[i]) : i \in 1..Len(h[e].children)}

Walked == last.op \in {"GetTupleAndAggregateExprs", "GetTupleAndAggregateExprsAgain"}

C14_OrderPreservingExtraction ==
  Walked =>
    LET expr_map == last.expr_map
        before == last.before
        found == UNION {Recorded(heap, r) : r \in last.walked}
        entered == (Len(before) + 1)..Len(expr_map)
    IN /\ last.ok
       /\ \A e \in found :
            Cardinality({i \in 1..Len(expr_map) : Equals(heap, expr_map[i].key, e)}) = 1
       /\ \A i \in 1..Len(expr_map) : expr_map[i].key \in found
       /\ \A i \in 1..Len(before) : expr_map[i] = before[i]
       /\ {expr_map[i].val : i \in 1..Len(expr_map)} = 0..(Len(expr_map) - 1)
       /\ \A i, j \in entered :
            (/\ heap[expr_map[i].key].type = "COLUMN_VALUE"
             /\ IsAggregateExpression(heap[expr_map[j].key].type))
            => expr_map[i].val < expr_map[j].val

\* The second walk entered an aggregate found before a column reference, and
\* found again a key of the first walk.
C14_Witness ==
  /\ last.op = "GetTupleAndAggregateExprsAgain"
  /\ Len(last.before) = 1
  /\ Len(last.expr_map) = 3
  /\ \E r \in last.walked :
       /\ Len(heap[r].children) = 2
       /\ IsAggregateExpression(heap[heap[r].children[1]].type)
       /\ heap[r].children[2] \notin Range([i \in 1..3 |-> last.expr_map[i].key])
       /\ Equals(heap, heap[r].children[2], last.expr_map[1].key)

(***************************************************************************)
(* C15: on a tree without positional references GenerateTableAliasSet adds *)
(* to the set exactly the table names of the tree's column references; a   *)
(* second run on the same tree and set changes nothing, and the tree with  *)
(* the children of every node in reverse order gives the same set.         *)
(***************************************************************************)
RECURSIVE TableNames(_)
TableNames(t) ==
  IF t.type = "COLUMN_VALUE" THEN {t.table}
  ELSE UNION {TableNames(t.children[i]) : i \in 1..Len(t.children)}

RECURSIVE Mirror(_)
Mirror(t) ==
  [t EXCEPT !.children =
     [i \in 1..Len(t.children) |-> Mirror(t.children[Len(t.children) + 1 - i])]]

C15_TableAliasSet ==
  (/\ last.op \in {"GenerateTableAliasSet", "GenerateTableAliasSetAgain"}
   /\ NoValueTuple(heap, last.expr)) =>
    /\ last.ok
    /\ last.table_alias_set = last.before \cup TableNames(TreeOf(heap, last.expr))
    /\ last.op = "GenerateTableAliasSetAgain" => last.table_alias_set = last.before
    /\ LET m == Alloc(heap, Mirror(TreeOf(heap, last.expr)))
       IN GenerateTableAliasSet(m.h, m.id, last.before) =
            [table_alias_set |-> last.table_alias_set, ok |-> TRUE]

C15_Witness ==
  /\ last.op = "GenerateTableAliasSetAgain"
  /\ Len(heap[last.expr].children) = 2
  /\ heap[heap[last.expr].children[1]].table = "t1"
  /\ heap[heap[last.expr].children[2]].table = "t2"
  /\ last.table_alias_set = {"t0", "t1", "t2"}

(***************************************************************************)
(* PropertyEnforcer.  EnforceProperty is three steps: the input is stored  *)
(* in input_gexpr_, the property is dispatched to Visit, which allocates   *)
(* the enforcing GroupExpression into output_gexpr_, and output_gexpr_ is  *)
(* read and returned.  With sync, a call starts only when no other call is *)
(* running (the callers' external synchronization).                        *)
(***************************************************************************)
UNDEFINED_GROUP == -1

GroupExpression(op, child_groups) ==
  [op |-> op, child_groups |-> child_groups, group_id |-> UNDEFINED_GROUP]

\* The enforcing expression takes over the input's child groups instead of
\* the input's own group.
VisitPropertySortChildGroups(input_gexpr) ==
  LET child_groups == gexprs[input_gexpr].child_groups
  IN GroupExpression("OrderBy", child_groups)

\* PropertyEnforcer::Visit(const PropertySort *)
VisitPropertySort(input_gexpr) ==
  LET child_groups == <<gexprs[input_gexpr].group_id>>
  IN GroupExpression("OrderBy", child_groups)

\* input_gexpr_ is stored by the first call only.
EnforcePropertyStoreOnce(t, sync) ==
  /\ pc[t] = "idle"
  /\ sync => \A u \in Threads : pc[u] = "idle"
  /\ ncalls < MaxCalls
  /\ \E g \in 0..MaxGroup :
       LET gexpr == Len(gexprs) + 1
       IN /\ gexprs' = Append(gexprs, [GroupExpression("LogicalGet", <<>>)
                                         EXCEPT !.group_id = g])
          /\ frame' = [frame EXCEPT ![t] = [gexpr |-> gexpr, ret |-> NULLPTR]]
          /\ enf' = IF enf.input_gexpr_ = NULLPTR
                    THEN [enf EXCEPT !.input_gexpr_ = gexpr] ELSE enf
  /\ pc' = [pc EXCEPT ![t] = "accept"]
  /\ ncalls' = ncalls + 1
  /\ overlap' = (overlap \/ \E u \in Threads : pc[u] # "idle")
  /\ UNCHANGED <<heap, last, nodeVars>>

\* The caller holds a GroupExpression of group g and calls
\* EnforceProperty(gexpr, sort): input_gexpr_ = gexpr.
EnforcePropertyStore(t, sync) ==
  /\ pc[t] = "idle"
  /\ sync => \A u \in Threads : pc[u] = "idle"
  /\ ncalls < MaxCalls
  /\ \E g \in 0..MaxGroup :
       LET gexpr == Len(gexprs) + 1
       IN /\ gexprs' = Append(gexprs, [GroupExpression("LogicalGet", <<>>)
                                         EXCEPT !.group_id = g])
          /\ frame' = [frame EXCEPT ![t] = [gexpr |-> gexpr, ret |-> NULLPTR]]
          /\ enf' = [enf EXCEPT !.input_gexpr_ = gexpr]
  /\ pc' = [pc EXCEPT ![t] = "accept"]
  /\ ncalls' = ncalls + 1
  /\ overlap' = (overlap \/ \E u \in Threads : pc[u] # "idle")
  /\ UNCHANGED <<heap, last, nodeVars>>

\* output_gexpr_ is kept from the call before: Visit allocates only when
\* output_gexpr_ is still null.
EnforcePropertyAcceptCached(t) ==
  /\ pc[t] = "accept"
  /\ IF enf.output_gexpr_ = NULLPTR
     THEN /\ gexprs' = Append(gexprs, VisitPropertySort(enf.input_gexpr_))
          /\ enf' = [enf EXCEPT !.output_gexpr_ = Len(gexprs) + 1]
     ELSE UNCHANGED <<gexprs, enf>>
  /\ pc' = [pc EXCEPT ![t] = "return"]
  /\ UNCHANGED <<heap, last, nodeVars, frame, ncalls, overlap>>

\* property->Accept(this), which calls Visit(const PropertySort *).
EnforcePropertyAccept(t) ==
  /\ pc[t] = "accept"
  /\ gexprs' = Append(gexprs, VisitPropertySort(enf.input_gexpr_))
  /\ enf' = [enf EXCEPT !.output_gexpr_ = Len(gexprs) + 1]
  /\ pc' = [pc EXCEPT ![t] = "return"]
  /\ UNCHANGED <<heap, last, nodeVars, frame, ncalls, overlap>>

\* return output_gexpr_;
EnforcePropertyReturn(t) ==
  /\ pc[t] = "return"
  /\ frame' = [frame EXCEPT ![t].ret = enf.output_gexpr_]
  /\ pc' = [pc EXCEPT ![t] = "idle"]
  /\ UNCHANGED <<heap, last, nodeVars, enf, gexprs, ncalls, overlap>>

NextEnforcer ==
  \E t \in Threads :
    \/ EnforcePropertyStore(t, TRUE)
    \/ EnforcePropertyAccept(t)
    \/ EnforcePropertyReturn(t)

SpecEnforcer == Init /\ [][NextEnforcer]_vars

(***************************************************************************)
(* C3: EnforceProperty(gexpr, sort) returns a GroupExpression allocated by *)
(* the call, whose operator is the order-by physical operator and whose    *)
(* child groups are exactly [the group of gexpr].                          *)
(***************************************************************************)
Returned(t) == pc[t] = "idle" /\ frame[t].gexpr # NULLPTR

C3_SortEnforcerResult ==
  \A t \in Threads :
    Returned(t) =>
      /\ frame[t].ret \in 1..Len(gexprs)
      /\ frame[t].ret > frame[t].gexpr
      /\ gexprs[frame[t].ret].op = "OrderBy"
      /\ gexprs[frame[t].ret].child_groups = <<gexprs[frame[t].gexpr].group_id>>

\* A call on an input of the last group has returned, after an earlier call
\* on an input of another group.
C3_Witness ==
  \E t \in Threads :
    /\ Returned(t)
    /\ gexprs[frame[t].gexpr].group_id = MaxGroup
    /\ gexprs[frame[t].ret].child_groups = <<MaxGroup>>
    /\ \E g \in 1..Len(gexprs) : gexprs[g].op = "LogicalGet" /\ gexprs[g].group_id # MaxGroup

(***************************************************************************)
(* C16: one PropertyEnforcer used for one call after the other: whenever a *)
(* call returns, what it returns is the GroupExpression that this very     *)
(* call allocated (the newest one, returned by no earlier call), and its   *)
(* only child group is the group of this call's input, whatever the calls  *)
(* before were given and returned.                                         *)
(***************************************************************************)
C16_SequentialReuse ==
  [][\A t \in Threads :
       (pc[t] = "return" /\ pc'[t] = "idle") =>
         LET ret == frame'[t].ret
         IN /\ ret = Len(gexprs)
            /\ ret = frame[t].gexpr + 1
            /\ \A u \in Threads : frame[u].ret # ret
            /\ gexprs[ret].child_groups = <<gexprs[frame[t].gexpr].group_id>>
            /\ gexprs' = gexprs]_vars

\* MaxCalls calls have returned, the last two on inputs of different groups.
C16_Witness ==
  /\ ncalls = MaxCalls
  /\ \A t \in Threads : Returned(t)
  /\ frame[1].ret # frame[2].ret
  /\ gexprs[frame[1].gexpr].group_id # gexprs[frame[2].gexpr].group_id
  /\ \A t \in Threads :
       gexprs[frame[t].ret].child_groups = <<gexprs[frame[t].gexpr].group_id>>

(***************************************************************************)
(* SpecConcurrent: the callers do not synchronize; a call may start while  *)
(* another call is between its three steps.                                *)
(***************************************************************************)
NextConcurrent ==
  \E t \in Threads :
    \/ EnforcePropertyStore(t, FALSE)
    \/ EnforcePropertyAccept(t)
    \/ EnforcePropertyReturn(t)

SpecConcurrent == Init /\ [][NextConcurrent]_vars

(***************************************************************************)
(* C17: two unsynchronized calls on one PropertyEnforcer can interleave so *)
(* that a call returns a GroupExpression whose child group is the group of *)
(* the other call's input, or so that both return the same                 *)
(* GroupExpression; as long as no call has started while another was       *)
(* running, neither happens.                                               *)
(***************************************************************************)
WrongChildGroup(t) ==
  /\ Returned(t)
  /\ gexprs[frame[t].ret].child_groups # <<gexprs[frame[t].gexpr].group_id>>

SameResult == Returned(1) /\ Returned(2) /\ frame[1].ret = frame[2].ret

C17_SerializedCallsAreSafe ==
  ~overlap => (~SameResult /\ \A t \in Threads : ~WrongChildGroup(t))

\* Two calls overlapped, and call 1 returned an expression over the group of
\* call 2's input.
C17_Witness ==
  /\ overlap
  /\ WrongChildGroup(1)
  /\ Returned(2)
  /\ gexprs[frame[1].ret].child_groups = <<gexprs[frame[2].gexpr].group_id>>

=============================================================================
